---- MODULE Spec2Model ----
(***************************************************************************)
(* A model of xenonpy/model/nn/runner.py: the ModelRunner object, its      *)
(* construction (__init__), model attachment (__call__), the training      *)
(* cycle (fit) and the evaluation cycle (predict).                         *)
(*                                                                         *)
(* Every statement of fit and predict that calls into a collaborator       *)
(* (checker, tensor conversion, device placement, optimizer, scheduler,    *)
(* model, loss) is one step; `pc` is the position inside the running       *)
(* method and `trace` is the sequence of collaborator calls the running    *)
(* (or last finished) method has made.  Tensor values are abstracted to    *)
(* the index of the epoch that produced them.  log_step, verbose, lr,      *)
(* model_name and work_dir only feed print() and constructor arguments     *)
(* and are left out.                                                       *)
(***************************************************************************)
EXTENDS Integers, Sequences, FiniteSets, TLC

\* ---------------------------------------------------------------- bounds
MaxEpochs == 3
MaxCheckStep == 2

\* ------------------------------------------------------------ value sets
None == "None"

\* ctx strings a caller can pass
Ctxs == {"cpu", "gpu", "GPU", "Gpu"}

\* runtime types of the data arguments: the two accepted ones, one foreign
\* type that has a ravel() method and one that has none
Kinds == {"ndarray", "DataFrame", "Series", "list"}

ModelKinds == {"Module", "NotModule"}
LossKinds == {None, "loss_fn"}
OptimKinds == {None, "optim_factory"}
SchedKinds == {None, "StepLR", "ReduceLROnPlateau"}

\* ctx.lower()
Lower(c) == IF c \in {"gpu", "GPU", "Gpu"} THEN "gpu" ELSE c

\* isinstance(data, df) or isinstance(data, np.ndarray) in _d2tv
D2tvAccepts(k) == k \in {"DataFrame", "ndarray"}

\* y_test.ravel(): ndarray and Series have the method, DataFrame and list
\* raise AttributeError
HasRavel(k) == k \in {"ndarray", "Series"}

\* isinstance(model, nn.Module)
IsModule(m) == m = "Module"

\* isinstance(scheduler, ReduceLROnPlateau)
IsPlateau(s) == s = "ReduceLROnPlateau"

StepBeforeForwardAlways(s) == s # None

\* the guard of scheduler.step() ahead of the forward pass
StepBeforeForward(s) == s # None /\ ~IsPlateau(s)

\* the guard of scheduler.step(loss) after the loss
StepAfterLoss(s) == s # None /\ IsPlateau(s)

CheckDueOffByOne(t, cs) == cs > 0 /\ (t + 1) % cs = 0

\* the guard of the periodic checkpoint
CheckDue(t, cs) == cs > 0 /\ t % cs = 0

FinalLabelLastIndex(e, t) == t

\* the epochs= label of the final checkpoint
FinalLabel(e, t) == e

PlacedModelDevKeep(c, cu, dev) ==
    IF Lower(c) = "gpu" THEN (IF cu THEN "cuda" ELSE dev) ELSE dev

\* device of the model after the placement block
PlacedModelDev(c, cu, dev) ==
    IF Lower(c) = "gpu" THEN (IF cu THEN "cuda" ELSE dev) ELSE "cpu"

\* device of a data tensor after the placement block
PlacedDataDev(c, cu) == IF Lower(c) = "gpu" /\ cu THEN "cuda" ELSE "cpu"

InitFieldsAttached ==
    [checker |-> "Checker", model |-> "Module", loss_func |-> "loss_fn",
     optim |-> "optim_factory", lr_scheduler |-> None]

\* the collaborator fields as __init__ leaves them
InitFields ==
    [checker |-> None, model |-> None, loss_func |-> None,
     optim |-> None, lr_scheduler |-> None]

FitOrderOptimFirst ==
    <<"f_convx", "f_convy", "f_optim", "f_place", "f_sched", "f_loop">>

\* statement order of fit ahead of the epoch loop
FitOrder ==
    <<"f_convx", "f_convy", "f_place", "f_optim", "f_sched", "f_loop">>

EpochOrderZeroAfterBackward ==
    <<"e_sched_pre", "e_forward", "e_loss", "e_sched_post",
      "e_backward", "e_zero", "e_step", "e_check", "f_loop">>

\* statement order of one epoch; control returns to the loop head
EpochOrder ==
    <<"e_sched_pre", "e_forward", "e_loss", "e_sched_post",
      "e_zero", "e_backward", "e_step", "e_check", "f_loop">>

\* statement order of predict
PredictOrder == <<"p_convx", "p_place", "p_ravel", "p_forward", "p_metrics">>

\* the statement following p in the order s
Succ(s, p) == s[(CHOOSE i \in 1..(Len(s) - 1) : s[i] = p) + 1]

\* one collaborator call
Ev(o, tt, l, md, dd, a) ==
    [op |-> o, t |-> tt, loss |-> l, mdev |-> md, ddev |-> dd, arg |-> a]

\* ----------------------------------------------------------------- state
VARIABLES
    epochs, ctx, check_step,                     \* configuration scalars
    checker, model, loss_func, optim, lr_scheduler, \* attached collaborators
    cuda,                                        \* tc.cuda.is_available()
    modelDev,                                    \* device holding the model
    called,                                      \* __call__ has succeeded
    pc, op,                                      \* position, running method
    xKind, yKind,                                \* types of the arguments
    xDev, yDev,                                  \* devices of the tensors
    optimObj, scheduler,                         \* locals optim, scheduler
    t, y_pred, loss, grads,                      \* loop locals, gradients
    result, trace

config == <<epochs, ctx, check_step>>
fields == <<checker, model, loss_func, optim, lr_scheduler>>
locals == <<xDev, yDev, optimObj, scheduler, t, y_pred, loss, grads>>
vars == <<epochs, ctx, check_step, checker, model, loss_func, optim,
          lr_scheduler, cuda, modelDev, called, pc, op, xKind, yKind,
          xDev, yDev, optimObj, scheduler, t, y_pred, loss, grads,
          result, trace>>

\* locals of a method that is not running
NoLocals ==
    /\ xDev' = "none"
    /\ yDev' = "none"
    /\ optimObj' = FALSE
    /\ scheduler' = None
    /\ t' = -1
    /\ y_pred' = -1
    /\ loss' = -1
    /\ grads' = -2

\* the running method ends by raising exc
Raise(exc) ==
    /\ pc' = "idle"
    /\ result' = exc
    /\ NoLocals

\* the running method ends by returning val
Return(val) ==
    /\ pc' = "idle"
    /\ result' = val
    /\ NoLocals

Init ==
    /\ epochs \in 0..MaxEpochs
    /\ ctx \in Ctxs
    /\ check_step \in -1..MaxCheckStep
    /\ checker = InitFields.checker
    /\ model = InitFields.model
    /\ loss_func = InitFields.loss_func
    /\ optim = InitFields.optim
    /\ lr_scheduler = InitFields.lr_scheduler
    /\ cuda \in BOOLEAN
    /\ modelDev = "cpu"
    /\ called = FALSE
    /\ pc = "idle"
    /\ op = "init"
    /\ xKind = None
    /\ yKind = None
    /\ xDev = "none"
    /\ yDev = "none"
    /\ optimObj = FALSE
    /\ scheduler = None
    /\ t = -1
    /\ y_pred = -1
    /\ loss = -1
    /\ grads = -2
    /\ result = None
    /\ trace = <<>>

\* ModelRunner.__init__
Construct(e, c, cs) ==
    /\ pc = "idle"
    /\ epochs' = e
    /\ ctx' = c
    /\ check_step' = cs
    /\ checker' = InitFields.checker
    /\ model' = InitFields.model
    /\ loss_func' = InitFields.loss_func
    /\ optim' = InitFields.optim
    /\ lr_scheduler' = InitFields.lr_scheduler
    /\ modelDev' = "cpu"
    /\ called' = FALSE
    /\ op' = "init"
    /\ xKind' = None
    /\ yKind' = None
    /\ trace' = <<>>
    /\ Return(None)
    /\ UNCHANGED cuda

\* ModelRunner.__call__: m is the object passed as model, dev the device
\* its parameters are on
Call(m, lf, o, ls, dev) ==
    /\ pc = "idle"
    /\ dev = "cuda" => cuda
    /\ op' = "call"
    /\ xKind' = m
    /\ yKind' = None
    /\ IF ~IsModule(m)
       THEN /\ Raise("ValueError")
            /\ trace' = <<>>
            /\ UNCHANGED <<fields, modelDev, called>>
       ELSE /\ checker' = "Checker"
            /\ model' = m
            /\ loss_func' = lf
            /\ optim' = o
            /\ lr_scheduler' = ls
            /\ modelDev' = dev
            /\ called' = TRUE
            /\ trace' = <<Ev("checker", -1, -1, dev, "none", "init_model")>>
            /\ Return(None)
    /\ UNCHANGED <<config, cuda>>

\* ------------------------------------------------------------------- fit
\* fit, entry: self.checker(x_train=..., y_train=...)
FitEnter(xk, yk) ==
    /\ pc = "idle"
    /\ op' = "fit"
    /\ xKind' = xk
    /\ yKind' = yk
    /\ IF checker = None
       THEN /\ Raise("TypeError")
            /\ trace' = <<>>
       ELSE /\ pc' = FitOrder[1]
            /\ trace' = <<Ev("checker", -1, -1, "none", "none", "train_data")>>
            /\ result' = "running"
            /\ UNCHANGED locals
    /\ UNCHANGED <<config, fields, cuda, modelDev, called>>

\* x_train = self._d2tv(x_train)
FitConvX ==
    /\ pc = "f_convx"
    /\ IF D2tvAccepts(xKind)
       THEN /\ xDev' = "cpu"
            /\ trace' = Append(trace, Ev("d2tv", -1, -1, "none", "cpu", "x"))
            /\ pc' = Succ(FitOrder, "f_convx")
            /\ UNCHANGED <<yDev, optimObj, scheduler, t, y_pred, loss, grads,
                           result>>
       ELSE /\ Raise("ValueError")
            /\ UNCHANGED trace
    /\ UNCHANGED <<config, fields, cuda, modelDev, called, op, xKind, yKind>>

\* y_train = self._d2tv(y_train)
FitConvY ==
    /\ pc = "f_convy"
    /\ IF D2tvAccepts(yKind)
       THEN /\ yDev' = "cpu"
            /\ trace' = Append(trace, Ev("d2tv", -1, -1, "none", "cpu", "y"))
            /\ pc' = Succ(FitOrder, "f_convy")
            /\ UNCHANGED <<xDev, optimObj, scheduler, t, y_pred, loss, grads,
                           result>>
       ELSE /\ Raise("ValueError")
            /\ UNCHANGED trace
    /\ UNCHANGED <<config, fields, cuda, modelDev, called, op, xKind, yKind>>

\* the collaborator calls of the placement block, n data tensors (x, y);
\* model.cpu() is recorded with the device the model comes from
PlaceEvents(n) ==
    IF Lower(ctx) = "gpu"
    THEN IF cuda
         THEN <<Ev("model_cuda", -1, -1, "cuda", "none", "model")>>
              \o [i \in 1..n |->
                    Ev("data_cuda", -1, -1, "none", "cuda",
                       IF i = 1 THEN "x" ELSE "y")]
         ELSE <<Ev("warn", -1, -1, modelDev, "none", "RuntimeWarning")>>
    ELSE <<Ev("model_cpu", -1, -1, "cpu", "none", modelDev)>>

\* if self.ctx.lower() == 'gpu': ... else: self.model.cpu()
FitPlace ==
    /\ pc = "f_place"
    /\ modelDev' = PlacedModelDev(ctx, cuda, modelDev)
    /\ xDev' = PlacedDataDev(ctx, cuda)
    /\ yDev' = PlacedDataDev(ctx, cuda)
    /\ trace' = trace \o PlaceEvents(2)
    /\ pc' = Succ(FitOrder, "f_place")
    /\ UNCHANGED <<config, fields, cuda, called, op, xKind, yKind, optimObj,
                   scheduler, t, y_pred, loss, grads, result>>

\* optim = self.optim(self.model.parameters(), lr=self.lr)
FitOptim ==
    /\ pc = "f_optim"
    /\ IF optim = None
       THEN /\ Raise("TypeError")
            /\ UNCHANGED trace
       ELSE /\ optimObj' = TRUE
            /\ trace' = Append(trace,
                               Ev("optim_new", -1, -1, modelDev, "none", optim))
            /\ pc' = Succ(FitOrder, "f_optim")
            /\ UNCHANGED <<xDev, yDev, scheduler, t, y_pred, loss, grads,
                           result>>
    /\ UNCHANGED <<config, fields, cuda, modelDev, called, op, xKind, yKind>>

\* scheduler = None; if self.lr_scheduler is not None: scheduler = ...(optim)
\* then loss, y_pred = None, None
FitSched ==
    /\ pc = "f_sched"
    /\ IF lr_scheduler # None
       THEN /\ scheduler' = lr_scheduler
            /\ trace' = Append(trace, Ev("sched_new", -1, -1, "none", "none",
                                         lr_scheduler))
       ELSE /\ scheduler' = None
            /\ UNCHANGED trace
    /\ loss' = -1
    /\ y_pred' = -1
    /\ pc' = Succ(FitOrder, "f_sched")
    /\ UNCHANGED <<config, fields, cuda, modelDev, called, op, xKind, yKind,
                   xDev, yDev, optimObj, t, grads, result>>

\* for t in range(self.epochs): the next index, or the statements after the
\* loop: loss.data[0] for the final print, the final checker call, return self
FitLoop ==
    /\ pc = "f_loop"
    /\ IF t + 1 < epochs
       THEN /\ t' = t + 1
            /\ pc' = EpochOrder[1]
            /\ UNCHANGED <<trace, result, xDev, yDev, optimObj, scheduler,
                           y_pred, loss, grads>>
       ELSE IF loss = -1
            THEN /\ Raise("AttributeError")
                 /\ UNCHANGED trace
            ELSE /\ trace' = Append(trace,
                                    Ev("checker", FinalLabel(epochs, t), loss,
                                       modelDev, "none", "trained_model"))
                 /\ Return("self")
    /\ UNCHANGED <<config, fields, cuda, modelDev, called, op, xKind, yKind>>

\* if scheduler and not isinstance(scheduler, ReduceLROnPlateau): step()
EpochSchedPre ==
    /\ pc = "e_sched_pre"
    /\ trace' = IF StepBeforeForward(scheduler)
                THEN Append(trace, Ev("sched_step", t, -1, "none", "none",
                                      "noarg"))
                ELSE trace
    /\ pc' = Succ(EpochOrder, "e_sched_pre")
    /\ UNCHANGED <<config, fields, cuda, modelDev, called, op, xKind, yKind,
                   locals, result>>

\* y_pred = self.model(x_train)
EpochForward ==
    /\ pc = "e_forward"
    /\ y_pred' = t
    /\ trace' = Append(trace, Ev("forward", t, -1, modelDev, xDev, "x"))
    /\ pc' = Succ(EpochOrder, "e_forward")
    /\ UNCHANGED <<config, fields, cuda, modelDev, called, op, xKind, yKind,
                   xDev, yDev, optimObj, scheduler, t, loss, grads, result>>

\* loss = self.loss_func(y_pred, y_train)
EpochLoss ==
    /\ pc = "e_loss"
    /\ IF loss_func = None
       THEN /\ Raise("TypeError")
            /\ UNCHANGED trace
       ELSE /\ loss' = y_pred
            /\ trace' = Append(trace, Ev("loss", t, y_pred, modelDev, yDev,
                                         "y"))
            /\ pc' = Succ(EpochOrder, "e_loss")
            /\ UNCHANGED <<xDev, yDev, optimObj, scheduler, t, y_pred, grads,
                           result>>
    /\ UNCHANGED <<config, fields, cuda, modelDev, called, op, xKind, yKind>>

\* if scheduler and isinstance(scheduler, ReduceLROnPlateau): step(loss)
EpochSchedPost ==
    /\ pc = "e_sched_post"
    /\ trace' = IF StepAfterLoss(scheduler)
                THEN Append(trace, Ev("sched_step", t, loss, "none", "none",
                                      "loss"))
                ELSE trace
    /\ pc' = Succ(EpochOrder, "e_sched_post")
    /\ UNCHANGED <<config, fields, cuda, modelDev, called, op, xKind, yKind,
                   locals, result>>

\* optim.zero_grad()
EpochZeroGrad ==
    /\ pc = "e_zero"
    /\ grads' = -1
    /\ trace' = Append(trace, Ev("zero_grad", t, -1, "none", "none", "optim"))
    /\ pc' = Succ(EpochOrder, "e_zero")
    /\ UNCHANGED <<config, fields, cuda, modelDev, called, op, xKind, yKind,
                   xDev, yDev, optimObj, scheduler, t, y_pred, loss, result>>

\* loss.backward(): the gradients of this loss are accumulated
EpochBackward ==
    /\ pc = "e_backward"
    /\ grads' = loss
    /\ trace' = Append(trace, Ev("backward", t, loss, "none", "none", "loss"))
    /\ pc' = Succ(EpochOrder, "e_backward")
    /\ UNCHANGED <<config, fields, cuda, modelDev, called, op, xKind, yKind,
                   xDev, yDev, optimObj, scheduler, t, y_pred, loss, result>>

\* optim.step(): the event carries the gradients the step applies
EpochStep ==
    /\ pc = "e_step"
    /\ trace' = Append(trace, Ev("step", t, grads, "none", "none", "optim"))
    /\ pc' = Succ(EpochOrder, "e_step")
    /\ UNCHANGED <<config, fields, cuda, modelDev, called, op, xKind, yKind,
                   locals, result>>

\* if self.check_step > 0 and t % self.check_step == 0: self.checker(...)
EpochCheck ==
    /\ pc = "e_check"
    /\ trace' = IF CheckDue(t, check_step)
                THEN Append(trace, Ev("checker", t, loss, modelDev, "none",
                                      "model_state"))
                ELSE trace
    /\ pc' = Succ(EpochOrder, "e_check")
    /\ UNCHANGED <<config, fields, cuda, modelDev, called, op, xKind, yKind,
                   locals, result>>

\* --------------------------------------------------------------- predict
\* predict, entry: self.checker(x_test=..., y_test=...)
PredictEnter(xk, yk) ==
    /\ pc = "idle"
    /\ op' = "predict"
    /\ xKind' = xk
    /\ yKind' = yk
    /\ IF checker = None
       THEN /\ Raise("TypeError")
            /\ trace' = <<>>
       ELSE /\ pc' = PredictOrder[1]
            /\ trace' = <<Ev("checker", -1, -1, "none", "none", "test_data")>>
            /\ result' = "running"
            /\ UNCHANGED locals
    /\ UNCHANGED <<config, fields, cuda, modelDev, called>>

\* x_test = self._d2tv(x_test)
PredictConvX ==
    /\ pc = "p_convx"
    /\ IF D2tvAccepts(xKind)
       THEN /\ xDev' = "cpu"
            /\ trace' = Append(trace, Ev("d2tv", -1, -1, "none", "cpu", "x"))
            /\ pc' = Succ(PredictOrder, "p_convx")
            /\ UNCHANGED <<yDev, optimObj, scheduler, t, y_pred, loss, grads,
                           result>>
       ELSE /\ Raise("ValueError")
            /\ UNCHANGED trace
    /\ UNCHANGED <<config, fields, cuda, modelDev, called, op, xKind, yKind>>

\* if self.ctx.lower() == 'gpu': ... else: self.model.cpu()
PredictPlace ==
    /\ pc = "p_place"
    /\ modelDev' = PlacedModelDev(ctx, cuda, modelDev)
    /\ xDev' = PlacedDataDev(ctx, cuda)
    /\ trace' = trace \o PlaceEvents(1)
    /\ pc' = Succ(PredictOrder, "p_place")
    /\ UNCHANGED <<config, fields, cuda, called, op, xKind, yKind, yDev,
                   optimObj, scheduler, t, y_pred, loss, grads, result>>

\* y_test.ravel(), the left element of the tuple, is evaluated first
PredictRavel ==
    /\ pc = "p_ravel"
    /\ IF HasRavel(yKind)
       THEN /\ trace' = Append(trace, Ev("ravel", -1, -1, "none", "none", "y"))
            /\ pc' = Succ(PredictOrder, "p_ravel")
            /\ UNCHANGED <<locals, result>>
       ELSE /\ Raise("AttributeError")
            /\ UNCHANGED trace
    /\ UNCHANGED <<config, fields, cuda, modelDev, called, op, xKind, yKind>>

\* self.model(x_test).cpu().data.numpy().ravel()
PredictForward ==
    /\ pc = "p_forward"
    /\ y_pred' = 0
    /\ trace' = Append(trace, Ev("forward", -1, -1, modelDev, xDev, "x"))
    /\ pc' = Succ(PredictOrder, "p_forward")
    /\ UNCHANGED <<config, fields, cuda, modelDev, called, op, xKind, yKind,
                   xDev, yDev, optimObj, scheduler, t, loss, grads, result>>

\* the metrics, self.checker(summary=...), return y_true, y_pred
PredictMetrics ==
    /\ pc = "p_metrics"
    /\ trace' = Append(trace, Ev("checker", -1, -1, modelDev, "none",
                                 "summary"))
    /\ Return("pair")
    /\ UNCHANGED <<config, fields, cuda, modelDev, called, op, xKind, yKind>>

\* ------------------------------------------------------------ the system
Next ==
    \/ \E e \in 0..MaxEpochs, c \in Ctxs, cs \in -1..MaxCheckStep :
          Construct(e, c, cs)
    \/ \E m \in ModelKinds, lf \in LossKinds, o \in OptimKinds,
          ls \in SchedKinds, dev \in {"cpu", "cuda"} : Call(m, lf, o, ls, dev)
    \/ \E xk \in Kinds, yk \in Kinds : FitEnter(xk, yk)
    \/ FitConvX
    \/ FitConvY
    \/ FitPlace
    \/ FitOptim
    \/ FitSched
    \/ FitLoop
    \/ EpochSchedPre
    \/ EpochForward
    \/ EpochLoss
    \/ EpochSchedPost
    \/ EpochZeroGrad
    \/ EpochBackward
    \/ EpochStep
    \/ EpochCheck
    \/ \E xk \in Kinds, yk \in Kinds : PredictEnter(xk, yk)
    \/ PredictConvX
    \/ PredictPlace
    \/ PredictRavel
    \/ PredictForward
    \/ PredictMetrics

Spec == Init /\ [][Next]_vars

\* ------------------------------------------------------------ properties
Raised == result \in {"ValueError", "TypeError", "AttributeError"}
Accepted(k) == k \in {"ndarray", "DataFrame"}
GpuRequested == ctx \in {"gpu", "GPU", "Gpu"}
FitDone == op = "fit" /\ pc = "idle" /\ result = "self"
Positions(o) == {i \in 1..Len(trace) : trace[i].op = o}
Has(o) == Positions(o) # {}
At(o, k) == {i \in Positions(o) : trace[i].t = k}
Records(a) == {i \in Positions("checker") : trace[i].arg = a}
ModelNotRun == ~Has("forward") /\ ~Has("optim_new") /\ ~Has("step")
PlacePositions ==
    Positions("model_cuda") \cup Positions("data_cuda")
        \cup Positions("model_cpu") \cup Positions("warn")
EpochPositions ==
    Positions("sched_step") \cup Positions("forward") \cup Positions("loss")
        \cup Positions("zero_grad") \cup Positions("backward")
        \cup Positions("step") \cup Records("model_state")
IsCore(e) == e.op \in {"forward", "loss", "zero_grad", "backward", "step"}
Core == SelectSeq(trace, IsCore)

\* C1: a fit or predict call with a data argument that is neither ndarray
\* nor DataFrame, and a __call__ with a non-Module model, ends in a raised
\* error with no forward pass, optimizer construction or optimizer step.
C1_TypeMismatchRaises ==
    pc = "idle" =>
      /\ (op \in {"fit", "predict"} /\ (~Accepted(xKind) \/ ~Accepted(yKind)))
            => (Raised /\ ModelNotRun)
      /\ (op = "call" /\ xKind # "Module") => (Raised /\ ModelNotRun)

\* C2: while __call__ has never succeeded, model, checker, loss_func and
\* optim are None and every fit or predict call has ended in an error
\* without a forward pass, an optimizer step or a checker record.
C2_UnattachedCallsFail ==
    ~called =>
      /\ checker = None /\ model = None /\ loss_func = None /\ optim = None
      /\ op \in {"fit", "predict"} =>
            /\ pc = "idle"
            /\ Raised
            /\ ~Has("forward") /\ ~Has("step") /\ ~Has("checker")

C2_Witness ==
    ~called /\ op = "predict" /\ pc = "idle" /\ result = "TypeError"

\* C3: with ctx 'gpu' in any case and no CUDA device, a fit or predict call
\* on a fully attached runner with inputs of the accepted types warns, moves
\* nothing to the accelerator and completes without raising: fit runs its
\* `epochs` epochs and returns self, predict returns its pair.
C3_GpuFallbackCompletes ==
    (/\ pc = "idle" /\ op \in {"fit", "predict"}
     /\ called /\ loss_func # None /\ optim # None
     /\ Accepted(xKind) /\ Accepted(yKind)
     /\ GpuRequested /\ ~cuda)
    => /\ Has("warn")
       /\ ~Has("model_cuda") /\ ~Has("data_cuda")
       /\ \A i \in Positions("forward") :
             trace[i].mdev = "cpu" /\ trace[i].ddev = "cpu"
       /\ op = "fit" =>
             (result = "self" /\ Cardinality(Positions("step")) = epochs)
       /\ op = "predict" => result = "pair"

\* C4: in every fit call both conversions precede device placement,
\* placement precedes the construction of the optimizer, that precedes the
\* construction of the scheduler, and no step of an epoch happens before the
\* optimizer (and the configured scheduler) exists.
C4_StageOrder ==
    op = "fit" =>
      /\ \A i \in PlacePositions :
            /\ \E j \in Positions("d2tv") : j < i /\ trace[j].arg = "x"
            /\ \E j \in Positions("d2tv") : j < i /\ trace[j].arg = "y"
      /\ \A i \in Positions("optim_new") :
            /\ \E j \in PlacePositions : j < i
            /\ \A j \in PlacePositions : j < i
      /\ \A i \in Positions("sched_new") :
            \E j \in Positions("optim_new") : j < i
      /\ \A i \in EpochPositions :
            /\ \E j \in Positions("optim_new") : j < i
            /\ lr_scheduler # None => \E j \in Positions("sched_new") : j < i
      /\ Cardinality(Positions("optim_new")) <= 1
      /\ pc \in {"e_sched_pre", "e_forward"} =>
            (optimObj /\ xDev # "none" /\ yDev # "none" /\ PlacePositions # {})

C4_Witness ==
    /\ op = "fit" /\ pc = "e_loss" /\ t = 0
    /\ Has("forward") /\ Has("sched_new") /\ Has("data_cuda")

\* C5: a completed fit has run exactly `epochs` epochs, each of them forward,
\* loss, zero_grad, backward, optimizer step once and in this order, followed
\* by the periodic checkpoint; each optimizer step applies the gradients of
\* the loss computed in its own epoch.
C5_EpochSequence ==
    FitDone =>
      /\ Len(Core) = 5 * epochs
      /\ \A k \in 0..(epochs - 1) :
            /\ Core[5 * k + 1].op = "forward" /\ Core[5 * k + 1].t = k
            /\ Core[5 * k + 2].op = "loss" /\ Core[5 * k + 2].t = k
            /\ Core[5 * k + 3].op = "zero_grad" /\ Core[5 * k + 3].t = k
            /\ Core[5 * k + 4].op = "backward" /\ Core[5 * k + 4].t = k
            /\ Core[5 * k + 5].op = "step" /\ Core[5 * k + 5].t = k
            /\ Core[5 * k + 4].loss = Core[5 * k + 2].loss
            /\ Core[5 * k + 5].loss = Core[5 * k + 2].loss
      /\ Cardinality(Positions("step")) = epochs
      /\ \A i \in Records("model_state") :
            \E j \in At("step", trace[i].t) :
               j < i /\ \A m \in (j + 1)..(i - 1) : ~IsCore(trace[m])

C5_Witness ==
    FitDone /\ epochs >= 2 /\ check_step = 1 /\ Len(Core) = 5 * epochs

\* C6: in a fit, epoch t records a model-state checkpoint exactly when
\* check_step > 0 and t is a multiple of check_step; the record carries
\* epochs = t and the loss of epoch t and comes after the optimizer step of
\* epoch t; with check_step <= 0 there is no periodic record.
C6_PeriodicCheckpoint ==
    op = "fit" =>
      /\ \A i \in Records("model_state") :
            /\ check_step > 0
            /\ trace[i].t \in 0..(epochs - 1)
            /\ trace[i].t % check_step = 0
            /\ Cardinality({j \in Records("model_state") :
                               trace[j].t = trace[i].t}) = 1
            /\ \E j \in At("loss", trace[i].t) :
                  j < i /\ trace[j].loss = trace[i].loss
            /\ \E j \in At("step", trace[i].t) : j < i
      /\ FitDone =>
            \A k \in 0..(epochs - 1) :
               (IF check_step > 0 THEN k % check_step = 0 ELSE FALSE)
                  => \E i \in Records("model_state") : trace[i].t = k
      /\ check_step <= 0 => Records("model_state") = {}

C6_Witness ==
    /\ FitDone /\ check_step = 2 /\ epochs >= 3
    /\ \E i \in Records("model_state") : trace[i].t = 2

\* C7: a completed fit has made exactly one checker call carrying the
\* trained model; it is the last call of the fit, labelled with the
\* configured epoch count and the loss of the last epoch, whatever
\* check_step is.
C7_FinalCheckpoint ==
    FitDone =>
      /\ Len(trace) > 0
      /\ trace[Len(trace)].op = "checker"
      /\ trace[Len(trace)].arg = "trained_model"
      /\ trace[Len(trace)].t = epochs
      /\ \E j \in At("loss", epochs - 1) :
            /\ trace[j].loss = trace[Len(trace)].loss
            /\ \A m \in Positions("loss") : m <= j
      /\ Cardinality(Records("trained_model")) = 1

C7_Witness ==
    FitDone /\ check_step <= 0 /\ epochs >= 2 /\ Records("trained_model") # {}

\* C8: on a runner with model, loss function and optimizer attached, a fit
\* call with inputs of the accepted types and any epochs >= 0 ends by
\* returning the runner.
C8_FitReturnsSelf ==
    (/\ pc = "idle" /\ op = "fit"
     /\ called /\ loss_func # None /\ optim # None
     /\ Accepted(xKind) /\ Accepted(yKind)
     /\ epochs >= 0)
    => result = "self"

\* C9: in a fit the configured scheduler is stepped once per epoch: one that
\* is not a ReduceLROnPlateau without arguments ahead of the forward pass of
\* the epoch, a ReduceLROnPlateau with the loss of the epoch right after the
\* loss and ahead of the optimizer step; without a scheduler nothing is
\* stepped.
C9_SchedulerStep ==
    op = "fit" =>
      /\ \A k \in 0..(epochs - 1) : Cardinality(At("sched_step", k)) <= 1
      /\ lr_scheduler = None => ~Has("sched_step")
      /\ \A i \in Positions("sched_step") :
            IF lr_scheduler = "ReduceLROnPlateau"
            THEN /\ trace[i].arg = "loss"
                 /\ trace[i - 1].op = "loss"
                 /\ trace[i - 1].t = trace[i].t
                 /\ trace[i - 1].loss = trace[i].loss
                 /\ \A j \in At("step", trace[i].t) : i < j
            ELSE /\ trace[i].arg = "noarg"
                 /\ \A j \in At("forward", trace[i].t) : i < j
      /\ \A i \in Positions("forward") :
            (lr_scheduler \notin {None, "ReduceLROnPlateau"})
               => \E j \in At("sched_step", trace[i].t) : j < i
      /\ \A i \in Positions("step") :
            lr_scheduler = "ReduceLROnPlateau"
               => \E j \in At("sched_step", trace[i].t) : j < i

C9_Witness ==
    /\ FitDone /\ lr_scheduler = "ReduceLROnPlateau" /\ epochs >= 2
    /\ Cardinality(Positions("sched_step")) = epochs

\* C10: at every forward pass of fit and predict the model and the input
\* tensor are on one device, the accelerator exactly when ctx is 'gpu' in
\* any case and CUDA is available, and in fit the target tensor is on that
\* device when the loss is computed.
C10_SameDevice ==
    /\ \A i \in Positions("forward") :
          /\ trace[i].mdev = trace[i].ddev
          /\ trace[i].mdev = "cuda" <=> (GpuRequested /\ cuda)
          /\ trace[i].mdev \in {"cpu", "cuda"}
    /\ \A i \in Positions("loss") : trace[i].ddev = trace[i].mdev

C10_Witness ==
    /\ op = "fit" /\ Has("loss")
    /\ \E i \in Positions("model_cpu") : trace[i].arg = "cuda"

====
